---- MODULE Spec2Model ----
(***************************************************************************)
(* A model of NotionClient (src/notion/api/client.py): the status poller   *)
(* wait_for_file_upload and the upload planner create_file_upload.         *)
(*                                                                         *)
(* Python strings are modelled as sequences of tokens.  The message        *)
(* literals of the source are Chinese; each is written here as one ASCII   *)
(* token that glosses it, and the line of the literal is given beside it.  *)
(* An Optional value is <<>> for None and <<v>> for a value v.             *)
(***************************************************************************)
EXTENDS Integers, Sequences, FiniteSets, TLC

VARIABLES w, u, req, fmt, cli, mp, app, bld, txt, cw

vars == <<w, u, req, fmt, cli, mp, app, bld, txt, cw>>

(***************************************************************************)
(* Bounds of the model.                                                    *)
(***************************************************************************)
\* the largest max_retries a caller passes
MaxRetries == 6
\* the largest number of sessions one client opens
MaxSessions == 5
\* the largest file size tried, in parts of PART_SIZE
MaxParts == 4
\* the longest server error message tried, in characters
MaxMsgLen == 5
\* the largest max_retries of the operations that run concurrently
MaxConcRetries == 2
\* the longest short text split, in characters
MaxTextLen == 4
\* the longest long text split, in paragraphs of PARAGRAPH_MAX_LENGTH
MaxChunks == 2
\* the largest number of keys of a properties dict
MaxKeys == 2

None == <<>>
Some(v) == <<v>>
IsNone(o) == o = <<>>
Val(o) == o[1]

(***************************************************************************)
(* Program constants.                                                      *)
(***************************************************************************)
FILE_SIZE_THRESHOLD == 20 * 1024 * 1024
PART_SIZE == 10 * 1024 * 1024
\* wait_for_file_upload(max_retries: int = 6, initial_delay: float = 5.0)
DEFAULT_MAX_RETRIES == 6
DEFAULT_INITIAL_DELAY == 5

\* "wen jian shang chuan shi bai: " (line 713)
MSG_UPLOAD_FAILED == "upload failed: "
\* "wei zhi cuo wu" (line 713), the default of error.get('message', ...)
MSG_UNKNOWN_ERROR == "unknown error"
\* "deng dai wen jian shang chuan chao shi" (line 735)
MSG_WAIT_TIMEOUT == "wait for upload timed out"
\* "deng dai wen jian shang chuan chao shi: " (line 731): the text of line
\* 735 followed by ": ", so a message of line 731 contains the text of
\* line 735
MSG_WAIT_TIMEOUT_COLON == <<MSG_WAIT_TIMEOUT, ": ">>
\* "Notion API qing qiu shi bai: " (line 181)
MSG_API_REQUEST_FAILED == "Notion API request failed: "

Contains(msg, token) == \E i \in 1..Len(msg) : msg[i] = token

\* the decimal digits, as characters
DigitChars == <<"0", "1", "2", "3", "4", "5", "6", "7", "8", "9">>

(***************************************************************************)
(* create_file_upload                                                      *)
(***************************************************************************)
\* A URL is a sequence of characters.
HTTPS_PREFIX == <<"h", "t", "t", "p", "s", ":", "/", "/">>

\* str.startswith
StartsWith(str, prefix) ==
    Len(str) >= Len(prefix) /\ SubSeq(str, 1, Len(prefix)) = prefix

\* the truth value Python gives an Optional[str] and an Optional[int]
TruthyStr(o) == ~IsNone(o) /\ Val(o) # <<>>
TruthyInt(o) == ~IsNone(o) /\ Val(o) # 0

ExternalUrls ==
    {None,
     Some(<<>>),
     Some(HTTPS_PREFIX),
     Some(HTTPS_PREFIX \o <<"a">>),
     Some(<<"h", "t", "t", "p", ":", "/", "/", "a">>),
     Some(<<"H", "T", "T", "P", "S", ":", "/", "/", "a">>),
     Some(<<"h", "t", "t", "p", "s", ":", "/">>),
     Some(<<"a">> \o HTTPS_PREFIX),
     Some(<<"f", "t", "p", ":", "/", "/", "a">>)}

FileSizes ==
    {None, Some(-1), Some(0), Some(1), Some(25165824)}
    \cup {Some(k * PART_SIZE + d) : k \in 1..MaxParts, d \in {-1, 0, 1}}

\* a scheme check that lets http:// through
UsesSecureScheme_Http(url) == StartsWith(url, <<"h", "t", "t", "p">>)

\* line 550: external_url.startswith("https://")
UsesSecureScheme(url) == StartsWith(url, HTTPS_PREFIX)

\* a threshold test that sends a file of exactly the threshold in parts
IsMultiPart_Inclusive(file_size) ==
    TruthyInt(file_size) /\ Val(file_size) >= FILE_SIZE_THRESHOLD

\* line 565: file_size and file_size > self.FILE_SIZE_THRESHOLD
IsMultiPart(file_size) ==
    TruthyInt(file_size) /\ Val(file_size) > FILE_SIZE_THRESHOLD

\* a part count that rounds down
NumberOfParts_Floor(file_size) == file_size \div PART_SIZE

\* line 567: (file_size + self.PART_SIZE - 1) // self.PART_SIZE
NumberOfParts(file_size) == (file_size + PART_SIZE - 1) \div PART_SIZE

\* A payload is the set of its keys and the values of mode,
\* number_of_parts and external_url (None for a key it does not have).
Payload(keys, mode, number_of_parts, external_url) ==
    [keys |-> keys, mode |-> mode, number_of_parts |-> number_of_parts,
     external_url |-> external_url]

\* a planner that looks at the file size before the external URL
PlanUpload_SizeFirst(file_size, external_url) ==
    IF IsMultiPart(file_size)
    THEN [raises |-> FALSE, mode |-> Some("multi_part"),
          number_of_parts |-> Some(NumberOfParts(Val(file_size))),
          payload |-> Some(Payload({"mode", "number_of_parts", "filename",
                                    "content_type", "external_url"},
                                   "multi_part",
                                   Some(NumberOfParts(Val(file_size))),
                                   external_url))]
    ELSE IF TruthyStr(external_url)
    THEN IF ~UsesSecureScheme(Val(external_url))
         THEN [raises |-> TRUE, mode |-> None, number_of_parts |-> None,
               payload |-> None]
         ELSE [raises |-> FALSE, mode |-> Some("external_url"),
               number_of_parts |-> None,
               payload |-> Some(Payload({"mode", "external_url", "filename"},
                                        "external_url", None, external_url))]
    ELSE [raises |-> FALSE, mode |-> Some("single_part"),
          number_of_parts |-> None,
          payload |-> Some(Payload({"filename", "content_type", "mode"},
                                   "single_part", None, None))]

\* lines 549-577: mode, number_of_parts and payload, or the ValueError
PlanUpload(file_size, external_url) ==
    IF TruthyStr(external_url)
    THEN IF ~UsesSecureScheme(Val(external_url))
         THEN [raises |-> TRUE, mode |-> None, number_of_parts |-> None,
               payload |-> None]
         ELSE [raises |-> FALSE, mode |-> Some("external_url"),
               number_of_parts |-> None,
               payload |-> Some(Payload({"mode", "external_url", "filename"},
                                        "external_url", None, external_url))]
    ELSE IF IsMultiPart(file_size)
         THEN [raises |-> FALSE, mode |-> Some("multi_part"),
               number_of_parts |-> Some(NumberOfParts(Val(file_size))),
               payload |-> Some(Payload({"mode", "number_of_parts", "filename",
                                         "content_type"},
                                        "multi_part",
                                        Some(NumberOfParts(Val(file_size))), None))]
         ELSE [raises |-> FALSE, mode |-> Some("single_part"),
               number_of_parts |-> None,
               payload |-> Some(Payload({"filename", "content_type", "mode"},
                                        "single_part", None, None))]

\* The state of one call: its arguments, the locals mode and
\* number_of_parts, the payloads handed to _make_request (requests), where
\* the call is suspended (pc) and how it ended.
UploadIdle ==
    [pc |-> "idle", file_size |-> None, external_url |-> None,
     mode |-> None, number_of_parts |-> None, requests |-> <<>>,
     outcome |-> "none", result |-> None, error |-> "none"]

\* lines 547-579: from the call to the ValueError or to the request
CreateEnter(file_size, external_url) ==
    LET plan == PlanUpload(file_size, external_url)
        s == [UploadIdle EXCEPT !.file_size = file_size,
                                !.external_url = external_url]
    IN IF plan.raises
       THEN [s EXCEPT !.pc = "done", !.outcome = "raised", !.error = "ValueError"]
       ELSE [s EXCEPT !.pc = "request", !.mode = plan.mode,
                      !.number_of_parts = plan.number_of_parts,
                      !.requests = Append(@, Val(plan.payload))]

\* lines 579-584: what follows the answer of _make_request: "ok" is a
\* response with id and upload_url, "missing" a response without one of
\* them, "not_object" a response that is no JSON object (response['id']
\* raises a TypeError), "error" the NotionAPIError that _make_request raises
CreateFinish(s, answer) ==
    CASE answer = "ok" ->
            [s EXCEPT !.pc = "done", !.outcome = "returned",
                      !.result = Some(<<"id", "upload_url", s.number_of_parts,
                                        Val(s.mode)>>)]
      [] answer = "missing" ->
            [s EXCEPT !.pc = "done", !.outcome = "raised", !.error = "KeyError"]
      [] answer = "not_object" ->
            [s EXCEPT !.pc = "done", !.outcome = "raised", !.error = "TypeError"]
      [] OTHER ->
            [s EXCEPT !.pc = "done", !.outcome = "raised",
                      !.error = "NotionAPIError"]

CreateCall ==
    /\ u.pc = "idle"
    /\ \E fs \in FileSizes, url \in ExternalUrls : u' = CreateEnter(fs, url)
    /\ UNCHANGED <<w, req, fmt, cli, mp, app, bld, txt, cw>>

CreateResponse ==
    /\ u.pc = "request"
    /\ \E answer \in {"ok", "missing", "not_object", "error"} :
          u' = CreateFinish(u, answer)
    /\ UNCHANGED <<w, req, fmt, cli, mp, app, bld, txt, cw>>


(***************************************************************************)
(* _format_error_message                                                   *)
(*                                                                         *)
(* A message is a sequence of characters; the formatted text is the        *)
(* sequence of its lines (the text split at its newlines).                 *)
(***************************************************************************)
\* "cuo wu xiang qing:" (line 124), the first line of the formatted text
MSG_ERROR_DETAILS == "error details:"

\* the index of the first occurrence of sep in str, 0 when there is none
FindFirst(str, sep) ==
    LET hits == {i \in 1..(Len(str) - Len(sep) + 1) :
                    SubSeq(str, i, i + Len(sep) - 1) = sep}
    IN IF hits = {} THEN 0 ELSE CHOOSE i \in hits : \A j \in hits : i <= j

\* str.split(sep)
RECURSIVE Split(_, _)
Split(str, sep) ==
    LET i == FindFirst(str, sep)
    IN IF i = 0 THEN <<str>>
       ELSE <<SubSeq(str, 1, i - 1)>>
            \o Split(SubSeq(str, i + Len(sep), Len(str)), sep)

\* a separator that is the full stop alone
DETAIL_SEPARATOR_Dot == <<".">>

\* line 122: '. '
DETAIL_SEPARATOR == <<".", " ">>

\* line 123: f"- {detail}"
Itemize(detail) == <<"-", " ">> \o detail

\* line 123: [f"- {detail}" for detail in error_details if detail]
RECURSIVE ItemizeAll(_)
ItemizeAll(details) ==
    IF details = <<>> THEN <<>>
    ELSE (IF Head(details) = <<>> THEN <<>> ELSE <<Itemize(Head(details))>>)
         \o ItemizeAll(Tail(details))

\* lines 121-124: message is error_data.get('message', ...), None when the
\* key is absent; the text is the header, a newline and the joined items
FormatErrorMessage(message) ==
    LET error_message == IF IsNone(message) THEN <<MSG_UNKNOWN_ERROR>>
                         ELSE Val(message)
        items == ItemizeAll(Split(error_message, DETAIL_SEPARATOR))
    IN <<<<MSG_ERROR_DETAILS>>>> \o (IF items = <<>> THEN <<<<>>>> ELSE items)

MessageChars == {"A", "B", ".", " "}

Messages ==
    {None} \cup {Some(str) : str \in UNION {[1..n -> MessageChars] : n \in 0..MaxMsgLen}}

FormatIdle == [pc |-> "idle", message |-> None, lines |-> <<>>]

FormatCall ==
    /\ fmt.pc = "idle"
    /\ \E message \in Messages :
          fmt' = [pc |-> "done", message |-> message,
                  lines |-> FormatErrorMessage(message)]
    /\ UNCHANGED <<w, u, req, cli, mp, app, bld, txt, cw>>

(***************************************************************************)
(* _make_request and _handle_response                                      *)
(*                                                                         *)
(* A URL is the sequence of its path segments.  An error message is a      *)
(* sequence of parts, each a sequence: a literal of the source as a        *)
(* one-token part, a formatted text as its lines.                          *)
(***************************************************************************)
\* "Notion wen jian shang chuan shi bai: " (line 245): the text "Notion "
\* followed by the text of MSG_UPLOAD_FAILED, which it therefore contains
MSG_FILE_UPLOAD_FAILED == <<"Notion ", MSG_UPLOAD_FAILED>>
\* "Notion ye mian cao zuo shi bai: " (line 251)
MSG_PAGE_OPERATION_FAILED == "Notion page operation failed: "
\* "Notion API qing qiu fa sheng yi wai cuo wu: " (line 189)
MSG_API_UNEXPECTED_ERROR == "Notion API request hit an unexpected error: "
\* "bu zhi chi de HTTP fang fa: " (line 173)
MSG_UNSUPPORTED_METHOD == "unsupported HTTP method: "
\* e.message of the ClientResponseError: the reason phrase of the response
\* or the complaint of response.json() about the content type
MSG_REASON == "reason phrase"
\* str(e) of a json.JSONDecodeError, an AttributeError, a ClientError
MSG_PYTHON_ERROR == "python error text"

\* An error as it travels: its class, its message, and the status_code and
\* response_body it was constructed with (None when it was given none).
ApiError(kind, msg, status_code, response_body) ==
    [kind |-> kind, msg |-> msg, status_code |-> status_code,
     response_body |-> response_body]

NoApiError == ApiError("none", <<>>, None, None)

\* The exception classes of notion/api/exceptions.py, which _handle_response
\* raises: they are Exception subclasses and no aiohttp.ClientError.
NotionErrorKinds == {"NotionAPIError", "NotionFileUploadError", "NotionPageError"}

\* the classes that 'except aiohttp.ClientError' (line 174) catches
IsClientError(kind) ==
    kind \in {"ClientError", "ClientResponseError", "ContentTypeError"}

\* the classes that 'except aiohttp.ClientResponseError' (line 215) catches
IsClientResponseError(kind) == kind \in {"ClientResponseError", "ContentTypeError"}

RequestUrls ==
    {<<"v1", "pages">>, <<"v1", "pages", "id">>, <<"v1", "blocks", "id", "children">>,
     <<"v1", "file_uploads">>, <<"v1", "file_uploads", "id">>,
     <<"v1", "file_uploads", "id", "complete">>,
     <<"v1", "file_uploads", "id", "send">>}

Methods == {"POST", "PATCH", "GET", "DELETE"}

\* lines 163-173: the methods _make_request knows
IsSupportedMethod(method) == method \in {"POST", "PATCH", "GET"}

\* A response body: whether its content type is JSON, what json.loads
\* makes of its text ("dict", "other" for a list, string or number,
\* "invalid" for no JSON at all), and the 'message' of a dict.
Bodies ==
    {[json_type |-> t, parses |-> "dict", message |-> m] :
        t \in BOOLEAN,
        m \in {None, Some(<<"A", ".", " ", "B", ".">>), Some(<<"B">>)}}
    \cup {[json_type |-> t, parses |-> k, message |-> None] :
            t \in BOOLEAN, k \in {"other", "invalid"}}

\* What the transport gives: a connection failure (an aiohttp.ClientError
\* raised by the session) or a response with a status and a body.
TransportOutcomes ==
    {[kind |-> "client_error", status |-> 0, body |-> None]}
    \cup {[kind |-> "response", status |-> st, body |-> Some(b)] :
            st \in {200, 201, 400, 404, 429, 500}, b \in Bodies}

\* aiohttp's raise_for_status: it raises for a status of 400 and above
IsErrorStatus(status) == status >= 400

\* lines 225, 236, 243: 'file_uploads' in url
IsFileUploadUrl(url) == Contains(url, "file_uploads")

\* lines 243-254: the error raised for a caught ClientResponseError
ClassifiedError(url, detail, status, body) ==
    IF IsFileUploadUrl(url)
    THEN ApiError("NotionFileUploadError", <<MSG_FILE_UPLOAD_FAILED>> \o detail,
                  Some(status), Some(body))
    ELSE ApiError("NotionPageError", <<<<MSG_PAGE_OPERATION_FAILED>>>> \o detail,
                  Some(status), Some(body))

\* lines 215-254: except aiohttp.ClientResponseError: the body text is
\* parsed; a dict gives the formatted message, no JSON gives e.message, and
\* any other JSON value makes error_data.get raise an AttributeError
HandleResponseError(url, status, body) ==
    CASE body.parses = "dict" ->
            ClassifiedError(url, FormatErrorMessage(body.message), status, body)
      [] body.parses = "invalid" ->
            ClassifiedError(url, <<<<MSG_REASON>>>>, status, body)
      [] OTHER ->
            ApiError("AttributeError", <<<<MSG_PYTHON_ERROR>>>>, None, None)

\* lines 206-254: the data returned (error "none") or the error raised
HandleResponse(url, status, body) ==
    IF IsErrorStatus(status)
    THEN HandleResponseError(url, status, body)
    ELSE IF ~body.json_type
    THEN \* response.json() raises ContentTypeError, a ClientResponseError
         HandleResponseError(url, status, body)
    ELSE IF body.parses = "invalid"
    THEN ApiError("JSONDecodeError", <<<<MSG_PYTHON_ERROR>>>>, None, None)
    ELSE NoApiError

\* lines 174-189: the two except clauses of _make_request
WrapError(e) ==
    IF IsClientError(e.kind)
    THEN ApiError("NotionAPIError", <<<<MSG_API_REQUEST_FAILED>>>> \o e.msg, None, None)
    ELSE ApiError("NotionAPIError", <<<<MSG_API_UNEXPECTED_ERROR>>>> \o e.msg, None, None)

\* The state of one _make_request: its arguments, the transport calls it
\* made (sent), what the transport gave (response), the error that left
\* _handle_response (inner) and how the request ended.
RequestIdle ==
    [pc |-> "idle", url |-> <<>>, method |-> "none", sent |-> 0,
     response |-> None, inner |-> NoApiError,
     outcome |-> "none", error |-> NoApiError]

\* lines 149-173: up to the transport call, or to the ValueError of line
\* 173, which the except clause of line 182 catches
RequestEnter(url, method) ==
    LET s == [RequestIdle EXCEPT !.url = url, !.method = method]
    IN IF IsSupportedMethod(method)
       THEN [s EXCEPT !.pc = "await", !.sent = 1]
       ELSE [s EXCEPT !.pc = "done", !.outcome = "raised",
                      !.error = WrapError(ApiError("ValueError",
                                    <<<<MSG_UNSUPPORTED_METHOD>>>>, None, None))]

\* lines 164-189: from the transport's answer to the end of the request
RequestFinish(s, o) ==
    LET t == [s EXCEPT !.pc = "done", !.response = Some(o)]
    IN IF o.kind = "client_error"
       THEN [t EXCEPT !.outcome = "raised",
                      !.error = WrapError(ApiError("ClientError",
                                    <<<<MSG_PYTHON_ERROR>>>>, None, None))]
       ELSE LET e == HandleResponse(s.url, o.status, Val(o.body))
            IN IF e.kind = "none"
               THEN [t EXCEPT !.outcome = "returned"]
               ELSE [t EXCEPT !.outcome = "raised", !.inner = e,
                              !.error = WrapError(e)]

RequestCall ==
    /\ req.pc = "idle"
    /\ \E url \in RequestUrls, method \in Methods : req' = RequestEnter(url, method)
    /\ UNCHANGED <<w, u, fmt, cli, mp, app, bld, txt, cw>>

RequestResponse ==
    /\ req.pc = "await"
    /\ \E o \in TransportOutcomes : req' = RequestFinish(req, o)
    /\ UNCHANGED <<w, u, fmt, cli, mp, app, bld, txt, cw>>

(***************************************************************************)
(* wait_for_file_upload                                                    *)
(***************************************************************************)
\* line 663: the URL of the status request
STATUS_URL == <<"v1", "file_uploads", "id">>

\* lines 666-671: the exception that leaves get_file_upload_status when the
\* transport gives answer: the error of _make_request, or, for an answer
\* that is JSON but no object, the AttributeError of response.get (line
\* 669); NoApiError when it returns
StatusRequestError(answer) ==
    LET e == RequestFinish(RequestEnter(STATUS_URL, "GET"), answer).error
    IN IF e.kind # "none" THEN e
       ELSE IF Val(answer.body).parses # "dict"
       THEN ApiError("AttributeError", <<<<MSG_PYTHON_ERROR>>>>, None, None)
       ELSE NoApiError

\* The answers to a status request that make get_file_upload_status raise,
\* as the polls draw them: a connection failure, an error status with a
\* JSON object, a success whose JSON is no object, and a success whose body
\* is no JSON.
ErrorAnswers ==
    {[kind |-> "client_error", status |-> 0, body |-> None],
     [kind |-> "response", status |-> 500,
      body |-> Some([json_type |-> TRUE, parses |-> "dict", message |-> Some(<<"B">>)])],
     [kind |-> "response", status |-> 200,
      body |-> Some([json_type |-> TRUE, parses |-> "other", message |-> None])],
     [kind |-> "response", status |-> 200,
      body |-> Some([json_type |-> FALSE, parses |-> "invalid", message |-> None])]}

RECURSIVE FlattenMessage(_)
\* str(e): the parts of a message, one after the other
FlattenMessage(msg) ==
    IF msg = <<>> THEN <<>> ELSE Head(msg) \o FlattenMessage(Tail(msg))

\* What one call of get_file_upload_status gives: a response whose status
\* is 'uploaded', 'failed' (with file_import_result.error.message present
\* or absent) or anything else (pending), or an exception, for one of the
\* answers of the transport that raise one.
ServerMessages == {Some("bad format"), None}

PollOutcomes ==
    {[kind |-> "uploaded", message |-> None, answer |-> None],
     [kind |-> "pending", message |-> None, answer |-> None]}
    \cup {[kind |-> "failed", message |-> m, answer |-> None] : m \in ServerMessages}
    \cup {[kind |-> "error", message |-> None, answer |-> Some(t)] : t \in ErrorAnswers}

InitialDelays == {1, DEFAULT_INITIAL_DELAY}

NoError == [kind |-> "none", msg |-> <<>>]
NotionFileUploadError(msg) == [kind |-> "NotionFileUploadError", msg |-> msg]

\* The state of one call: its arguments, the locals attempt, delay and
\* response, where it is suspended (pc), how it ended (outcome, result,
\* error), and what it did: polls counts the status requests issued, hist
\* lists what each gave, sleeps lists the duration of every asyncio.sleep.
WaitIdle ==
    [pc |-> "idle", max_retries |-> 0, initial_delay |-> 0, attempt |-> 0,
     delay |-> 0, polls |-> 0, sleeps |-> <<>>, hist |-> <<>>,
     response |-> None, outcome |-> "none", result |-> None, error |-> NoError]

\* line 735: the loop ran out of attempts
RaiseTimeout(s) ==
    [s EXCEPT !.pc = "done", !.outcome = "raised",
              !.error = NotionFileUploadError(<<MSG_WAIT_TIMEOUT>>)]

\* a loop that makes its first attempt whatever max_retries is
WaitEnter_AlwaysPolls(max_retries, initial_delay) ==
    [WaitIdle EXCEPT !.max_retries = max_retries, !.initial_delay = initial_delay,
                     !.delay = initial_delay, !.pc = "poll"]

\* lines 697-698: delay = initial_delay; for attempt in range(max_retries)
WaitEnter(max_retries, initial_delay) ==
    LET s == [WaitIdle EXCEPT !.max_retries = max_retries,
                              !.initial_delay = initial_delay,
                              !.delay = initial_delay]
    IN IF max_retries <= 0 THEN RaiseTimeout(s) ELSE [s EXCEPT !.pc = "poll"]

\* lines 707-714: the error raised inside the try block on status 'failed'
FailedStatusError(o) ==
    NotionFileUploadError(
        <<MSG_UPLOAD_FAILED,
          IF IsNone(o.message) THEN MSG_UNKNOWN_ERROR ELSE Val(o.message)>>)

\* the exception that leaves the try block (lines 699-722) on outcome o,
\* None when the block raises nothing
TryBlockError(o) ==
    CASE o.kind = "failed" -> Some(FailedStatusError(o))
      [] o.kind = "error" ->
            LET e == StatusRequestError(Val(o.answer))
            IN Some([kind |-> e.kind, msg |-> FlattenMessage(e.msg)])
      [] OTHER -> None

\* line 730: is this the last attempt of the loop
IsLastAttempt(s) == s.attempt = s.max_retries - 1

\* a handler that gives up on the first error instead of retrying
ExceptHandler_NoRetry(s, e) ==
    [s EXCEPT !.pc = "done", !.outcome = "raised",
              !.error = NotionFileUploadError(MSG_WAIT_TIMEOUT_COLON \o e.msg)]

\* a handler that sleeps on the last attempt too, before it raises
ExceptHandler_SleepThenRaise(s, e) ==
    IF IsLastAttempt(s)
    THEN [s EXCEPT !.pc = "done", !.outcome = "raised",
                   !.sleeps = Append(@, s.delay),
                   !.error = NotionFileUploadError(MSG_WAIT_TIMEOUT_COLON \o e.msg)]
    ELSE [s EXCEPT !.pc = "sleep", !.sleeps = Append(@, s.delay)]

\* lines 724-733: except Exception as e
ExceptHandler(s, e) ==
    IF IsLastAttempt(s)
    THEN [s EXCEPT !.pc = "done", !.outcome = "raised",
                   !.error = NotionFileUploadError(MSG_WAIT_TIMEOUT_COLON \o e.msg)]
    ELSE [s EXCEPT !.pc = "sleep", !.sleeps = Append(@, s.delay)]

\* an attempt that sleeps once more before it returns the uploaded response
PollStep_SleepThenReturn(s, o) ==
    LET t == [s EXCEPT !.polls = @ + 1, !.hist = Append(@, o.kind),
                       !.response = IF o.kind = "error" THEN @ ELSE Some(o)]
    IN IF o.kind = "uploaded"
       THEN [t EXCEPT !.pc = "done", !.outcome = "returned", !.result = Some(o),
                      !.sleeps = Append(@, t.delay)]
       ELSE IF ~IsNone(TryBlockError(o))
       THEN ExceptHandler(t, Val(TryBlockError(o)))
       ELSE [t EXCEPT !.pc = "sleep", !.sleeps = Append(@, t.delay)]

\* lines 699-733: one attempt, from the status request to the next
\* suspension point (the sleep) or to the end of the call
PollStep(s, o) ==
    LET t == [s EXCEPT !.polls = @ + 1, !.hist = Append(@, o.kind),
                       !.response = IF o.kind = "error" THEN @ ELSE Some(o)]
    IN IF o.kind = "uploaded"
       THEN [t EXCEPT !.pc = "done", !.outcome = "returned", !.result = Some(o)]
       ELSE IF ~IsNone(TryBlockError(o))
       THEN ExceptHandler(t, Val(TryBlockError(o)))
       ELSE [t EXCEPT !.pc = "sleep", !.sleeps = Append(@, t.delay)]

\* lines 722/733 and the loop head: the sleep returns, delay *= 2, and the
\* for loop takes its next attempt or ends (line 735); a loop that ends
\* leaves attempt at the last value it took
\* a delay that is never doubled
NextDelay_Constant(d) == d

NextDelay(d) == d * 2

\* a loop that takes one attempt too many
WakeStep_OneMore(s) ==
    LET t == [s EXCEPT !.delay = NextDelay(@)]
    IN IF s.attempt + 1 > s.max_retries
       THEN RaiseTimeout(t)
       ELSE [t EXCEPT !.pc = "poll", !.attempt = @ + 1]

WakeStep(s) ==
    LET t == [s EXCEPT !.delay = NextDelay(@)]
    IN IF s.attempt + 1 >= s.max_retries
       THEN RaiseTimeout(t)
       ELSE [t EXCEPT !.pc = "poll", !.attempt = @ + 1]

Call ==
    /\ w.pc = "idle"
    /\ \E n \in (0..MaxRetries) \cup {DEFAULT_MAX_RETRIES}, d \in InitialDelays :
          w' = WaitEnter(n, d)
    /\ UNCHANGED <<u, req, fmt, cli, mp, app, bld, txt, cw>>

Poll ==
    /\ w.pc = "poll"
    /\ \E o \in PollOutcomes : w' = PollStep(w, o)
    /\ UNCHANGED <<u, req, fmt, cli, mp, app, bld, txt, cw>>

Wake ==
    /\ w.pc = "sleep"
    /\ w' = WakeStep(w)
    /\ UNCHANGED <<u, req, fmt, cli, mp, app, bld, txt, cw>>


(***************************************************************************)
(* The transport session: __aenter__, __aexit__ and the lazy open of       *)
(* _make_request                                                           *)
(***************************************************************************)
\* The client's _session (None or the number of the session held), the
\* number of sessions created so far (they are numbered 1, 2, ...), the
\* sessions closed, the depth of 'async with' scopes entered and not yet
\* left, the last operation, the sessions whose close() a suspended
\* __aexit__ is awaiting (one entry per suspended __aexit__), and the
\* session the last request was sent on.
ClientInit ==
    [session |-> None, opened |-> 0, closed |-> {}, depth |-> 0, last |-> "init",
     exc |-> "none", exiting |-> <<>>, sent_on |-> None]

\* line 64: self._session = aiohttp.ClientSession()
OpenSession(s) == [s EXCEPT !.opened = @ + 1, !.session = Some(s.opened + 1)]

\* lines 62-65: __aenter__
AEnterStep(s) == [OpenSession(s) EXCEPT !.depth = @ + 1, !.last = "aenter"]

\* lines 69-70: __aexit__, with or without an exception in flight (exc),
\* up to its await: with a session held it calls close() on that session
\* and is suspended; with none it returns at once
AExitBegin(s, exc) ==
    IF ~IsNone(s.session)
    THEN [s EXCEPT !.exiting = Append(@, Val(s.session)), !.exc = exc]
    ELSE [s EXCEPT !.depth = @ - 1, !.last = "aexit", !.exc = exc]

\* lines 70-71: close() of the i-th suspended __aexit__ returns: that
\* session is closed and self._session is set to None, whichever session
\* the client holds by then
AExitEnd(s, i) ==
    [s EXCEPT !.closed = @ \cup {s.exiting[i]}, !.session = None,
              !.exiting = SubSeq(@, 1, i - 1) \o SubSeq(@, i + 1, Len(@)),
              !.depth = @ - 1, !.last = "aexit"]

\* lines 149-173: if not self._session: self._session = ClientSession(),
\* and a POST, PATCH or GET goes out on the session held then; for any
\* other method line 173 raises before anything is sent
LazySessionStep(s, method) ==
    LET t == IF IsNone(s.session) THEN OpenSession(s) ELSE s
    IN IF IsSupportedMethod(method)
       THEN [t EXCEPT !.last = "request", !.sent_on = t.session]
       ELSE [t EXCEPT !.last = "request"]

AEnter ==
    /\ cli.opened < MaxSessions
    /\ cli' = AEnterStep(cli)
    /\ UNCHANGED <<w, u, req, fmt, mp, app, bld, txt, cw>>

AExit ==
    /\ cli.depth > Len(cli.exiting)
    /\ \E exc \in {"none", "error"} : cli' = AExitBegin(cli, exc)
    /\ UNCHANGED <<w, u, req, fmt, mp, app, bld, txt, cw>>

AExitResume ==
    /\ \E i \in 1..Len(cli.exiting) : cli' = AExitEnd(cli, i)
    /\ UNCHANGED <<w, u, req, fmt, mp, app, bld, txt, cw>>

ClientRequest ==
    /\ ~IsNone(cli.session) \/ cli.opened < MaxSessions
    /\ \E method \in Methods : cli' = LazySessionStep(cli, method)
    /\ UNCHANGED <<w, u, req, fmt, mp, app, bld, txt, cw>>

(***************************************************************************)
(* upload_file_part, complete_multi_part_upload and the multi-part         *)
(* sequence that calls them                                                *)
(*                                                                         *)
(* The loop over the parts is the caller's; it is taken from section 4.2   *)
(* of the specification.  The two operations are the client's.             *)
(***************************************************************************)
\* the URL the server returned for the parts of the upload
UPLOAD_URL == <<"v1", "file_uploads", "id", "send">>
\* line 646
COMPLETE_URL == <<"v1", "file_uploads", "id", "complete">>

\* the error that leaves _make_request(url, 'POST') when the transport
\* gives o, NoApiError when the request returns
RequestError(url, o) == RequestFinish(RequestEnter(url, "POST"), o).error

RECURSIVE StrOfInt(_)
\* str(num) of an int that is not negative (line 619)
StrOfInt(num) ==
    IF num < 10 THEN <<DigitChars[num + 1]>>
    ELSE Append(StrOfInt(num \div 10), DigitChars[(num % 10) + 1])

\* A transport request of the sequence.  The form of a part has the field
\* 'file', the length bytes of the file from start_byte on, and the field
\* 'part_number', the text tag (lines 617-619); part_number is the argument
\* of the call that made the request.
PartRequest(part_number, start_byte, length) ==
    [op |-> "part", part_number |-> part_number, start_byte |-> start_byte,
     length |-> length, tag |-> StrOfInt(part_number)]

CompleteRequest ==
    [op |-> "complete", part_number |-> 0, start_byte |-> 0, length |-> 0,
     tag |-> <<>>]

\* line 615: read() of a binary file raises a ValueError for a length below
\* -1
ReadRaises(start_byte, end_byte) == end_byte - start_byte < -1

\* lines 614-615: f.seek(start_byte); f.read(end_byte - start_byte): the
\* number of bytes read; a length of -1 reads to the end of the file
BytesRead(file_size, start_byte, end_byte) ==
    LET want == IF end_byte - start_byte < 0 THEN file_size ELSE end_byte - start_byte
        left == IF file_size - start_byte < 0 THEN 0 ELSE file_size - start_byte
    IN IF want < left THEN want ELSE left

\* The state of one sequence: the file and its plan, the part being sent,
\* the transport requests made so far (sent), how many are unanswered
\* (inflight), how many parts succeeded (acked), and how it ended.
PartsIdle ==
    [pc |-> "idle", file_size |-> 0, number_of_parts |-> 0, part_number |-> 0,
     sent |-> <<>>, inflight |-> 0, acked |-> 0, outcome |-> "none",
     error |-> NoApiError]

\* lines 613-622: read the range, build the form, post it; the ValueError
\* of the read is raised outside the try block and leaves the call before
\* any request
UploadFilePartEnter(s, part_number, start_byte, end_byte) ==
    IF ReadRaises(start_byte, end_byte)
    THEN [s EXCEPT !.pc = "done", !.part_number = part_number,
                   !.outcome = "raised",
                   !.error = ApiError("ValueError", <<<<MSG_PYTHON_ERROR>>>>, None, None)]
    ELSE [s EXCEPT !.pc = "part", !.part_number = part_number,
                   !.sent = Append(@, PartRequest(part_number, start_byte,
                                          BytesRead(s.file_size, start_byte, end_byte))),
                   !.inflight = @ + 1]

\* lines 622-633: the request returns, or its error is logged and raised
\* again
UploadFilePartFinish(s, o) ==
    [s EXCEPT !.inflight = @ - 1, !.error = RequestError(UPLOAD_URL, o)]

\* lines 646-647: post to .../complete
CompleteEnter(s) ==
    [s EXCEPT !.pc = "complete", !.sent = Append(@, CompleteRequest),
              !.inflight = @ + 1]

\* lines 647-649
CompleteFinish(s, o) ==
    LET e == RequestError(COMPLETE_URL, o)
    IN [s EXCEPT !.pc = "done", !.inflight = @ - 1, !.error = e,
                 !.outcome = IF e.kind = "none" THEN "returned" ELSE "raised"]

\* section 4.2, step 3: the byte range of part part_number
PartStart(part_number) == part_number * PART_SIZE

PartEnd(part_number, file_size) ==
    IF file_size < (part_number + 1) * PART_SIZE THEN file_size
    ELSE (part_number + 1) * PART_SIZE

\* section 4.2, step 3: the sequence begins with part 1
DriverEnter(file_size) ==
    UploadFilePartEnter(
        [PartsIdle EXCEPT !.file_size = file_size,
                          !.number_of_parts = NumberOfParts(file_size)],
        1, PartStart(1), PartEnd(1, file_size))

\* section 4.2, step 3: a failed part aborts the sequence; after a part
\* that succeeded comes the next part or, after the last, the completion
DriverAfterPart(s, o) ==
    LET t == UploadFilePartFinish(s, o)
    IN IF t.error.kind # "none"
       THEN [t EXCEPT !.pc = "done", !.outcome = "raised"]
       ELSE IF t.part_number < t.number_of_parts
       THEN UploadFilePartEnter([t EXCEPT !.acked = @ + 1], t.part_number + 1,
                                PartStart(t.part_number + 1),
                                PartEnd(t.part_number + 1, t.file_size))
       ELSE CompleteEnter([t EXCEPT !.acked = @ + 1])

DriverStart ==
    /\ mp.pc = "idle"
    /\ \E fs \in FileSizes :
          /\ IsMultiPart(fs)
          /\ mp' = DriverEnter(Val(fs))
    /\ UNCHANGED <<w, u, req, fmt, cli, app, bld, txt, cw>>

DriverPartResponse ==
    /\ mp.pc = "part"
    /\ \E o \in TransportOutcomes : mp' = DriverAfterPart(mp, o)
    /\ UNCHANGED <<w, u, req, fmt, cli, app, bld, txt, cw>>

DriverCompleteResponse ==
    /\ mp.pc = "complete"
    /\ \E o \in TransportOutcomes : mp' = CompleteFinish(mp, o)
    /\ UNCHANGED <<w, u, req, fmt, cli, app, bld, txt, cw>>

(***************************************************************************)
(* append_file_block                                                       *)
(***************************************************************************)
\* lines 23-28
FILE_TYPE_MIME_MAPPING ==
    [image |-> {"image/jpeg", "image/png", "image/gif", "image/webp", "image/svg+xml"},
     video |-> {"video/mp4", "video/quicktime", "video/x-msvideo", "video/webm"},
     audio |-> {"audio/mpeg", "audio/mp4", "audio/wav", "audio/ogg", "audio/webm"},
     pdf |-> {"application/pdf"}]

\* lines 107-110; the sets of the mapping are disjoint but for audio/webm,
\* which no set before 'audio' holds, so the order of the dict decides
\* nothing
DetermineBlockType(file_mime_type) ==
    IF file_mime_type \in FILE_TYPE_MIME_MAPPING.image THEN "image"
    ELSE IF file_mime_type \in FILE_TYPE_MIME_MAPPING.video THEN "video"
    ELSE IF file_mime_type \in FILE_TYPE_MIME_MAPPING.audio THEN "audio"
    ELSE IF file_mime_type \in FILE_TYPE_MIME_MAPPING.pdf THEN "pdf"
    ELSE "file"

UploadIds == {<<"u", "1">>, <<"u", "2">>}
PageIds == {<<"p", "1">>}
FileNames == {<<>>, <<"a">>}
MimeTypes == {"image/png", "audio/webm", "application/zip"}

\* line 763
BlocksChildrenUrl(page_id) == <<"v1", "blocks", page_id, "children">>

\* lines 774-798: the block of the payload; the caption is there for a
\* file name that is not empty
FileBlock(file_upload_id, file_name, file_mime_type) ==
    [type |-> DetermineBlockType(file_mime_type),
     file_upload_id |-> file_upload_id,
     caption |-> IF file_name # <<>> THEN Some(file_name) ELSE None]

\* The state of one call: the id it waits for (waited), the PATCH requests
\* it made, and how it ended.
AppendIdle ==
    [pc |-> "idle", page_id |-> <<>>, file_upload_id |-> <<>>, file_name |-> <<>>,
     file_mime_type |-> "", waited |-> <<>>, requests |-> <<>>,
     outcome |-> "none", error |-> NoError]

\* lines 755-761: up to the call of wait_for_file_upload(file_upload_id)
AppendEnter(page_id, file_upload_id, file_name, file_mime_type) ==
    [AppendIdle EXCEPT !.pc = "wait", !.page_id = page_id,
                       !.file_upload_id = file_upload_id, !.file_name = file_name,
                       !.file_mime_type = file_mime_type, !.waited = file_upload_id]

\* lines 763-806: build the payload and send the PATCH
AppendPatch(s) ==
    [s EXCEPT !.pc = "patch",
              !.requests = Append(@, [method |-> "PATCH",
                                      url |-> BlocksChildrenUrl(s.page_id),
                                      block |-> FileBlock(s.file_upload_id, s.file_name,
                                                          s.file_mime_type)])]

\* an append_file_block that goes on to the PATCH however the wait ended
AppendAfterWait_PatchAnyway(s, ws) ==
    IF ws.pc = "done" THEN AppendPatch(s) ELSE s

\* line 761: the await is outside the try block, so what
\* wait_for_file_upload raises leaves append_file_block; when it returns,
\* the code runs on to the PATCH with no suspension in between
AppendAfterWait(s, ws) ==
    IF ws.outcome = "returned" THEN AppendPatch(s)
    ELSE IF ws.outcome = "raised"
    THEN [s EXCEPT !.pc = "done", !.outcome = "raised", !.error = ws.error]
    ELSE s

\* lines 806-819: the PATCH returns, or its error is logged and raised again
AppendFinish(s, o) ==
    LET e == RequestFinish(RequestEnter(BlocksChildrenUrl(s.page_id), "PATCH"), o).error
    IN [s EXCEPT !.pc = "done",
                 !.outcome = IF e.kind = "none" THEN "returned" ELSE "raised",
                 !.error = [kind |-> e.kind, msg |-> e.msg]]

AppendCall ==
    /\ app.pc = "idle"
    /\ \E pid \in PageIds, uid \in UploadIds, fn \in FileNames, mt \in MimeTypes :
          LET ws == WaitEnter(DEFAULT_MAX_RETRIES, DEFAULT_INITIAL_DELAY)
          IN /\ w' = ws
             /\ app' = AppendAfterWait(AppendEnter(pid, uid, fn, mt), ws)
    /\ UNCHANGED <<u, req, fmt, cli, mp, bld, txt, cw>>

AppendPoll ==
    /\ app.pc = "wait"
    /\ w.pc = "poll"
    /\ \E o \in PollOutcomes :
          /\ w' = PollStep(w, o)
          /\ app' = AppendAfterWait(app, PollStep(w, o))
    /\ UNCHANGED <<u, req, fmt, cli, mp, bld, txt, cw>>

AppendWake ==
    /\ app.pc = "wait"
    /\ w.pc = "sleep"
    /\ w' = WakeStep(w)
    /\ app' = AppendAfterWait(app, WakeStep(w))
    /\ UNCHANGED <<u, req, fmt, cli, mp, bld, txt, cw>>

AppendResponse ==
    /\ app.pc = "patch"
    /\ \E o \in TransportOutcomes : app' = AppendFinish(app, o)
    /\ UNCHANGED <<w, u, req, fmt, cli, mp, bld, txt, cw>>

(***************************************************************************)
(* _build_page_properties and _build_update_payload                        *)
(***************************************************************************)
\* A Python value: its type and, by type, a number (int; a bool is the int
\* 0 or 1), a text (str), a list of texts (list) or the fields year, month,
\* day, hour, minute, second, microsecond of a naive datetime.  'absent' is
\* a key the dict does not hold.
PyValue(type, num, text, items, dt) ==
    [type |-> type, num |-> num, text |-> text, items |-> items, dt |-> dt]

Absent == PyValue("absent", 0, <<>>, <<>>, <<>>)
PyStr(text) == PyValue("str", 0, text, <<>>, <<>>)
PyInt(num) == PyValue("int", num, <<>>, <<>>, <<>>)
PyBool(b) == PyValue("bool", IF b THEN 1 ELSE 0, <<>>, <<>>, <<>>)
PyList(items) == PyValue("list", 0, <<>>, items, <<>>)
PyDateTime(dt) == PyValue("datetime", 0, <<>>, <<>>, dt)

\* bool(value), as 'if properties.get(key):' takes it (line 283)
Truthy(v) ==
    CASE v.type = "absent" -> FALSE
      [] v.type = "str" -> v.text # <<>>
      [] v.type = "list" -> v.items # <<>>
      [] v.type = "int" -> v.num # 0
      [] v.type = "bool" -> v.num # 0
      [] v.type = "datetime" -> TRUE

\* 'key in properties' (line 299)
HasKey(v) == v.type # "absent"

\* isinstance(value, (int, float)): bool is a subclass of int (line 368)
IsInstanceIntFloat(v) == v.type \in {"int", "bool"}

RECURSIVE ZeroPad(_, _)
\* the decimal digits of num, padded with zeros to width
ZeroPad(num, width) ==
    IF width = 0 THEN <<>>
    ELSE Append(ZeroPad(num \div 10, width - 1), DigitChars[(num % 10) + 1])

\* datetime.isoformat() of a naive datetime (lines 314, 322, 365):
\* YYYY-MM-DDTHH:MM:SS, followed by .ffffff when microsecond is not 0
IsoFormat(dt) ==
    ZeroPad(dt[1], 4) \o <<"-">> \o ZeroPad(dt[2], 2) \o <<"-">> \o ZeroPad(dt[3], 2)
    \o <<"T">> \o ZeroPad(dt[4], 2) \o <<":">> \o ZeroPad(dt[5], 2)
    \o <<":">> \o ZeroPad(dt[6], 2)
    \o (IF dt[7] # 0 THEN <<".">> \o ZeroPad(dt[7], 6) ELSE <<>>)

\* the fixed fields of the page, in the order of lines 282-344:
\* lai yuan, biao qian, shi fou zhi ding, yuan lian jie, chuang jian shi
\* jian, geng xin shi jian, wen jian shu liang, lian jie shu liang, zhuang
\* tai
FieldNames ==
    {"source", "tags", "pinned", "source_url", "created_time", "updated_time",
     "file_count", "link_count", "status"}

\* the wire type _build_page_properties gives each field
SchemaKind(field) ==
    CASE field \in {"source", "status"} -> "select"
      [] field = "tags" -> "multi_select"
      [] field = "pinned" -> "checkbox"
      [] field = "source_url" -> "url"
      [] field \in {"created_time", "updated_time"} -> "date"
      [] field \in {"file_count", "link_count"} -> "number"

\* A property on the wire: its type key and the value under it.
Wire(kind, value) == [kind |-> kind, value |-> value]
NoWire == Wire("absent", Absent)

\* lines 282-344, for one field
BuildPageProperty(field, v) ==
    CASE field \in {"source", "status"} ->
            IF Truthy(v) THEN Wire("select", v) ELSE NoWire
      [] field = "tags" ->
            IF Truthy(v) THEN Wire("multi_select", PyList(v.items)) ELSE NoWire
      [] field = "pinned" ->
            IF HasKey(v) THEN Wire("checkbox", v) ELSE NoWire
      [] field = "source_url" ->
            IF Truthy(v) THEN Wire("url", v) ELSE NoWire
      [] field \in {"created_time", "updated_time"} ->
            IF Truthy(v) THEN Wire("date", PyStr(IsoFormat(v.dt))) ELSE NoWire
      [] field \in {"file_count", "link_count"} ->
            IF HasKey(v) THEN Wire("number", v) ELSE NoWire

\* lines 279-346: 'if not properties' returns the title alone, which is
\* what the field by field mapping gives for an empty dict
BuildPageProperties(title, properties) ==
    [field \in FieldNames \cup {"title"} |->
        IF field = "title" THEN Wire("title", PyStr(title))
        ELSE BuildPageProperty(field, properties[field])]

\* lines 362-384, for one value
BuildUpdateProperty(v) ==
    IF v.type = "datetime" THEN Wire("date", PyStr(IsoFormat(v.dt)))
    ELSE IF IsInstanceIntFloat(v) THEN Wire("number", v)
    ELSE IF v.type = "str" THEN Wire("rich_text", v)
    ELSE Wire("raw", v)

\* lines 357-386: one entry for each key of the dict
BuildUpdatePayload(properties) ==
    [field \in FieldNames \cup {"title"} |->
        IF field = "title" THEN NoWire
        ELSE IF HasKey(properties[field]) THEN BuildUpdateProperty(properties[field])
        ELSE NoWire]

\* Reading a page back (the inverse of the mapping): the value of a digit
DigitValue(ch) == CHOOSE num \in 0..9 : DigitChars[num + 1] = ch

RECURSIVE ParseDigits(_)
ParseDigits(str) ==
    IF str = <<>> THEN 0
    ELSE 10 * ParseDigits(SubSeq(str, 1, Len(str) - 1)) + DigitValue(str[Len(str)])

\* the datetime an ISO 8601 text stands for
ParseIso(str) ==
    <<ParseDigits(SubSeq(str, 1, 4)), ParseDigits(SubSeq(str, 6, 7)),
      ParseDigits(SubSeq(str, 9, 10)), ParseDigits(SubSeq(str, 12, 13)),
      ParseDigits(SubSeq(str, 15, 16)), ParseDigits(SubSeq(str, 18, 19)),
      IF Len(str) > 19 THEN ParseDigits(SubSeq(str, 21, Len(str))) ELSE 0>>

\* the typed value a wire property of a fixed field stands for; Absent when
\* the property is missing, has another wire type than the schema gives the
\* field, or carries a value of another JSON type
ParseProperty(field, wp) ==
    IF wp.kind # SchemaKind(field) THEN Absent
    ELSE CASE wp.kind \in {"select", "url"} ->
                 IF wp.value.type = "str" THEN wp.value ELSE Absent
           [] wp.kind = "multi_select" ->
                 IF wp.value.type = "list" THEN wp.value ELSE Absent
           [] wp.kind = "checkbox" ->
                 IF wp.value.type = "bool" THEN wp.value ELSE Absent
           [] wp.kind = "number" ->
                 IF wp.value.type = "int" THEN wp.value ELSE Absent
           [] wp.kind = "date" ->
                 IF wp.value.type = "str" THEN PyDateTime(ParseIso(wp.value.text))
                 ELSE Absent

ParseProperties(wire) == [field \in FieldNames |-> ParseProperty(field, wire[field])]

\* the values of the type of each field
TextValues == {<<>>, <<"a">>, <<"a", "b">>}
ListValues == {<<>>, <<<<"a">>>>, <<<<"a">>, <<"b">>>>}
NumberValues == {0, 1, 7}
DateTimeValues == {<<2024, 1, 5, 0, 0, 0, 0>>, <<2025, 12, 31, 23, 59, 58, 500>>}

FieldValues(field) ==
    CASE SchemaKind(field) \in {"select", "url"} -> {PyStr(t) : t \in TextValues}
      [] SchemaKind(field) = "multi_select" -> {PyList(l) : l \in ListValues}
      [] SchemaKind(field) = "checkbox" -> {PyBool(b) : b \in BOOLEAN}
      [] SchemaKind(field) = "number" -> {PyInt(num) : num \in NumberValues}
      [] SchemaKind(field) = "date" -> {PyDateTime(dt) : dt \in DateTimeValues}

\* the dicts that hold at most MaxKeys of the fields, each with a value of
\* its type
PropertyDicts ==
    UNION {{[field \in FieldNames |-> IF field \in K THEN f[field] ELSE Absent] :
               f \in {g \in [K -> UNION {FieldValues(field) : field \in FieldNames}] :
                         \A field \in K : g[field] \in FieldValues(field)}} :
           K \in {S \in SUBSET FieldNames : Cardinality(S) <= MaxKeys}}

Titles == {<<"t">>}

BuildIdle ==
    [pc |-> "idle", builder |-> "", properties |-> [field \in FieldNames |-> Absent],
     wire |-> [field \in FieldNames \cup {"title"} |-> NoWire],
     parsed |-> [field \in FieldNames |-> Absent]]

BuildCreate ==
    /\ bld.pc = "idle"
    /\ \E title \in Titles, properties \in PropertyDicts :
          bld' = [bld EXCEPT !.pc = "built", !.builder = "create",
                             !.properties = properties,
                             !.wire = BuildPageProperties(title, properties)]
    /\ UNCHANGED <<w, u, req, fmt, cli, mp, app, txt, cw>>

BuildUpdate ==
    /\ bld.pc = "idle"
    /\ \E properties \in PropertyDicts :
          bld' = [bld EXCEPT !.pc = "built", !.builder = "update",
                             !.properties = properties,
                             !.wire = BuildUpdatePayload(properties)]
    /\ UNCHANGED <<w, u, req, fmt, cli, mp, app, txt, cw>>

ParseBack ==
    /\ bld.pc = "built"
    /\ bld' = [bld EXCEPT !.pc = "parsed", !.parsed = ParseProperties(bld.wire)]
    /\ UNCHANGED <<w, u, req, fmt, cli, mp, app, txt, cw>>



(***************************************************************************)
(* _split_text_to_paragraphs, and the paragraph blocks of create_page and   *)
(* append_text                                                             *)
(***************************************************************************)
\* lines 440, 494: the limit the two callers pass
PARAGRAPH_MAX_LENGTH == 1950

\* "chuang jian ye mian shi bai: wei fan hui ye mian ID" (line 459)
MSG_NO_PAGE_ID == "create page failed: no page id returned"

\* a slice that takes one character more
Slice_OneMore(text, i, j) ==
    SubSeq(text, i + 1, IF j + 1 < Len(text) THEN j + 1 ELSE Len(text))

\* text[i:j] for 0 <= i <= j (line 390)
Slice(text, i, j) ==
    SubSeq(text, i + 1, IF j < Len(text) THEN j ELSE Len(text))

RECURSIVE SplitFrom(_, _, _)
\* line 390: the slices for i in range(from, len(text), max_length)
SplitFrom(text, from, max_length) ==
    IF from >= Len(text) THEN <<>>
    ELSE <<Slice(text, from, from + max_length)>>
         \o SplitFrom(text, from + max_length, max_length)

\* line 390
SplitTextToParagraphs(text, max_length) == SplitFrom(text, 0, max_length)

\* lines 442-452, 499-509: the block of one paragraph
ParagraphBlock(para) ==
    [object |-> "block", type |-> "paragraph", rich_text_type |-> "text",
     content |-> para]

RECURSIVE ParagraphBlocks(_)
\* lines 441-454, 498-511: one block for each paragraph, in order
ParagraphBlocks(paragraphs) ==
    IF paragraphs = <<>> THEN <<>>
    ELSE <<ParagraphBlock(Head(paragraphs))>> \o ParagraphBlocks(Tail(paragraphs))

\* the character at position i of the long texts: it tells the position
\* within a paragraph and the paragraph apart
CharAt(i) ==
    IF i % 7 = 0 THEN "x"
    ELSE IF ((i - 1) \div PARAGRAPH_MAX_LENGTH) % 2 = 0 THEN "a" ELSE "b"

\* the text of len characters
LongText(len) == [i \in 1..len |-> CharAt(i)]

\* the short texts, of up to MaxTextLen characters
ShortTexts == UNION {[1..len -> {"a", "b"}] : len \in 0..MaxTextLen}

\* the lengths around the multiples of the limit
LongLengths ==
    {k * PARAGRAPH_MAX_LENGTH + d : k \in 1..MaxChunks, d \in {-1, 0, 1}}

\* the content_text of the callers: short and long texts
ContentTexts ==
    {t \in ShortTexts : Len(t) <= 1} \cup {LongText(len) : len \in LongLengths}

\* The state of one call: the operation, its text (None when create_page
\* is given none) and limit, the paragraphs, the children of the payload
\* (None when the payload has no 'children' key), the requests made and how
\* the call ended.
TextIdle ==
    [pc |-> "idle", op |-> "none", text |-> None, max_length |-> 0,
     chunks |-> <<>>, children |-> None, requests |-> <<>>,
     outcome |-> "none", error |-> NoApiError]

\* line 390 on its own
SplitEnter(text, max_length) ==
    [TextIdle EXCEPT !.pc = "done", !.op = "split", !.text = Some(text),
                     !.max_length = max_length,
                     !.chunks = SplitTextToParagraphs(text, max_length),
                     !.outcome = "returned"]

\* lines 427-457: 'if content_text' is false for None and for ''; then the
\* POST of the payload
CreatePageEnter(content_text) ==
    LET has == TruthyStr(content_text)
        paras == IF has
                 THEN SplitTextToParagraphs(Val(content_text), PARAGRAPH_MAX_LENGTH)
                 ELSE <<>>
        kids == IF has THEN Some(ParagraphBlocks(paras)) ELSE None
    IN [TextIdle EXCEPT !.pc = "await", !.op = "create_page", !.text = content_text,
                        !.max_length = PARAGRAPH_MAX_LENGTH, !.chunks = paras,
                        !.children = kids,
                        !.requests = <<[method |-> "POST", url |-> <<"v1", "pages">>,
                                        children |-> kids]>>]

\* lines 457-476: the request raises; or its answer is no JSON object and
\* response.get (line 459) raises an AttributeError, which the handler of
\* line 470 does not catch; or the answer has an id or has none
CreatePageFinish(s, o, has_id) ==
    LET e == RequestFinish(RequestEnter(<<"v1", "pages">>, "POST"), o).error
    IN IF e.kind # "none"
       THEN [s EXCEPT !.pc = "done", !.outcome = "raised", !.error = e]
       ELSE IF Val(o.body).parses # "dict"
       THEN [s EXCEPT !.pc = "done", !.outcome = "raised",
                      !.error = ApiError("AttributeError", <<<<MSG_PYTHON_ERROR>>>>,
                                         None, None)]
       ELSE IF ~has_id
       THEN [s EXCEPT !.pc = "done", !.outcome = "raised",
                      !.error = ApiError("NotionPageError", <<<<MSG_NO_PAGE_ID>>>>,
                                         None, None)]
       ELSE [s EXCEPT !.pc = "done", !.outcome = "returned"]

\* lines 489-513: up to the PATCH of the payload
AppendTextEnter(content_text) ==
    LET paras == SplitTextToParagraphs(content_text, PARAGRAPH_MAX_LENGTH)
        kids == Some(ParagraphBlocks(paras))
    IN [TextIdle EXCEPT !.pc = "await", !.op = "append_text",
                        !.text = Some(content_text),
                        !.max_length = PARAGRAPH_MAX_LENGTH, !.chunks = paras,
                        !.children = kids,
                        !.requests = <<[method |-> "PATCH",
                                        url |-> BlocksChildrenUrl(<<"p", "1">>),
                                        children |-> kids]>>]

\* line 513: the request returns or raises
AppendTextFinish(s, o) ==
    LET e == RequestFinish(RequestEnter(BlocksChildrenUrl(<<"p", "1">>), "PATCH"), o).error
    IN [s EXCEPT !.pc = "done", !.error = e,
                 !.outcome = IF e.kind = "none" THEN "returned" ELSE "raised"]

SplitCall ==
    /\ txt.pc = "idle"
    /\ \E text \in ShortTexts, max_length \in 1..(MaxTextLen + 1) :
          txt' = SplitEnter(text, max_length)
    /\ UNCHANGED <<w, u, req, fmt, cli, mp, app, bld, cw>>

CreatePageCall ==
    /\ txt.pc = "idle"
    /\ \E content_text \in {None} \cup {Some(t) : t \in ContentTexts} :
          txt' = CreatePageEnter(content_text)
    /\ UNCHANGED <<w, u, req, fmt, cli, mp, app, bld, cw>>

AppendTextCall ==
    /\ txt.pc = "idle"
    /\ \E content_text \in ContentTexts : txt' = AppendTextEnter(content_text)
    /\ UNCHANGED <<w, u, req, fmt, cli, mp, app, bld, cw>>

TextResponse ==
    /\ txt.pc = "await"
    /\ \E o \in TransportOutcomes, has_id \in BOOLEAN :
          txt' = IF txt.op = "create_page" THEN CreatePageFinish(txt, o, has_id)
                 ELSE AppendTextFinish(txt, o)
    /\ UNCHANGED <<w, u, req, fmt, cli, mp, app, bld, cw>>

(***************************************************************************)
(* Concurrent wait_for_file_upload operations on one client                *)
(***************************************************************************)
\* the operations that run on the client at the same time
Operations == {1, 2}

\* The client and its operations: whether the client holds a session (the
\* one thing the operations share, lines 149-150), and for each operation
\* the locals of its coroutine (ops), whether its status request is
\* unanswered (awaiting), and the answers it was given (scripts).
ConcurrentIdle ==
    [session_open |-> FALSE,
     ops |-> [i \in Operations |-> WaitIdle],
     awaiting |-> [i \in Operations |-> FALSE],
     scripts |-> [i \in Operations |-> <<>>]]

\* a client that keeps the delay as an attribute of its own, one for all
\* its operations
WithLocals_DelayOnClient(c, i, s) ==
    [c EXCEPT !.ops = [j \in Operations |->
                          IF j = i THEN s ELSE [c.ops[j] EXCEPT !.delay = s.delay]]]

\* lines 697-698: delay, attempt and response are local variables of the
\* coroutine of the call: a step of operation i changes its own and no
\* other's
WithLocals(c, i, s) == [c EXCEPT !.ops[i] = s]

\* lines 673-698: the call of operation i
ConcurrentEnter(c, i, max_retries, initial_delay) ==
    WithLocals(c, i, WaitEnter(max_retries, initial_delay))

\* line 700 with lines 149-150: the status request is sent, on the session
\* of the client, and the coroutine is suspended
ConcurrentSend(c, i) ==
    [c EXCEPT !.awaiting[i] = TRUE, !.session_open = TRUE]

\* lines 700-733: the answer comes and the attempt runs to its sleep or to
\* the end of the call
ConcurrentAnswer(c, i, o) ==
    WithLocals([c EXCEPT !.awaiting[i] = FALSE, !.scripts[i] = Append(@, o)],
               i, PollStep(c.ops[i], o))

\* lines 721-722, 732-735: the sleep of operation i returns
ConcurrentWake(c, i) == WithLocals(c, i, WakeStep(c.ops[i]))

ConcCall ==
    \E i \in Operations :
        /\ cw.ops[i].pc = "idle"
        /\ \E n \in 0..MaxConcRetries, d \in InitialDelays :
              cw' = ConcurrentEnter(cw, i, n, d)
        /\ UNCHANGED <<w, u, req, fmt, cli, mp, app, bld, txt>>

ConcSend ==
    \E i \in Operations :
        /\ cw.ops[i].pc = "poll"
        /\ ~cw.awaiting[i]
        /\ cw' = ConcurrentSend(cw, i)
        /\ UNCHANGED <<w, u, req, fmt, cli, mp, app, bld, txt>>

ConcAnswer ==
    \E i \in Operations :
        /\ cw.awaiting[i]
        /\ \E o \in PollOutcomes : cw' = ConcurrentAnswer(cw, i, o)
        /\ UNCHANGED <<w, u, req, fmt, cli, mp, app, bld, txt>>

ConcWake ==
    \E i \in Operations :
        /\ cw.ops[i].pc = "sleep"
        /\ cw' = ConcurrentWake(cw, i)
        /\ UNCHANGED <<w, u, req, fmt, cli, mp, app, bld, txt>>

Init ==
    /\ w = WaitIdle
    /\ u = UploadIdle
    /\ req = RequestIdle
    /\ fmt = FormatIdle
    /\ cli = ClientInit
    /\ mp = PartsIdle
    /\ app = AppendIdle
    /\ bld = BuildIdle
    /\ txt = TextIdle
    /\ cw = ConcurrentIdle

Next == Call \/ Poll \/ Wake

Spec == Init /\ [][Next]_vars

\* every status request is answered and every sleep returns
LiveSpec == Spec /\ WF_vars(Poll) /\ WF_vars(Wake)

CreateNext == CreateCall \/ CreateResponse

CreateSpec == Init /\ [][CreateNext]_vars

FormatNext == FormatCall

FormatSpec == Init /\ [][FormatNext]_vars

RequestNext == RequestCall \/ RequestResponse

RequestSpec == Init /\ [][RequestNext]_vars

SessionNext == AEnter \/ AExit \/ AExitResume \/ ClientRequest

SessionSpec == Init /\ [][SessionNext]_vars

PartsNext == DriverStart \/ DriverPartResponse \/ DriverCompleteResponse

PartsSpec == Init /\ [][PartsNext]_vars

AppendNext == AppendCall \/ AppendPoll \/ AppendWake \/ AppendResponse

AppendSpec == Init /\ [][AppendNext]_vars

BuildNext == BuildCreate \/ BuildUpdate \/ ParseBack

BuildSpec == Init /\ [][BuildNext]_vars

TextNext == SplitCall \/ CreatePageCall \/ AppendTextCall \/ TextResponse

TextSpec == Init /\ [][TextNext]_vars

ConcNext == ConcCall \/ ConcSend \/ ConcAnswer \/ ConcWake

ConcSpec == Init /\ [][ConcNext]_vars

(***************************************************************************)
(* Properties of wait_for_file_upload, checked under Spec.                 *)
(***************************************************************************)
Last(q) == q[Len(q)]

RECURSIVE Pow2(_)
Pow2(n) == IF n = 0 THEN 1 ELSE 2 * Pow2(n - 1)

AllPending(h) == \A i \in 1..Len(h) : h[i] = "pending"

\* C1: once a poll has returned 'failed', the call has ended with a
\* NotionFileUploadError that carries the server's message, and that poll
\* was the last one issued.
C1_FailedEndsTheCall ==
    \A i \in 1..Len(w.hist) :
        w.hist[i] = "failed" =>
            /\ w.pc = "done"
            /\ w.outcome = "raised"
            /\ i = Len(w.hist)
            /\ w.error.kind = "NotionFileUploadError"
            /\ ~IsNone(Val(w.response).message)
                   => Contains(w.error.msg, Val(Val(w.response).message))

\* C2: a call in which some poll returned 'failed' never returns success.
C2_FailedNeverReturns ==
    (\E i \in 1..Len(w.hist) : w.hist[i] = "failed") => w.outcome # "returned"

\* C3: no call issues more than max_retries polls, and a call whose polls
\* were all pending ends after exactly max_retries polls with the timeout
\* NotionFileUploadError.
C3_AllPendingTimesOut ==
    /\ w.polls <= w.max_retries
    /\ (w.pc = "done" /\ AllPending(w.hist)) =>
          /\ w.polls = w.max_retries
          /\ Len(w.hist) = w.max_retries
          /\ w.outcome = "raised"
          /\ w.error = NotionFileUploadError(<<MSG_WAIT_TIMEOUT>>)

C3_Witness ==
    /\ w.pc = "done"
    /\ w.max_retries = DEFAULT_MAX_RETRIES
    /\ w.polls = DEFAULT_MAX_RETRIES
    /\ AllPending(w.hist)
    /\ w.error = NotionFileUploadError(<<MSG_WAIT_TIMEOUT>>)

\* C4: a poll that returns 'uploaded' ends the call at once: the response
\* is returned, no poll and no sleep follows it; and for the statuses
\* pending, pending, uploaded with initial_delay 5 the call polls 3 times,
\* sleeps 5 and then 10, and returns.
C4_UploadedReturnsAtOnce ==
    /\ \A i \in 1..Len(w.hist) :
          w.hist[i] = "uploaded" =>
              /\ i = Len(w.hist)
              /\ w.pc = "done"
              /\ w.outcome = "returned"
              /\ w.result = w.response
              /\ Val(w.result).kind = "uploaded"
              /\ w.polls = i
              /\ Len(w.sleeps) = i - 1
    /\ (w.hist = <<"pending", "pending", "uploaded">> /\ w.initial_delay = 5) =>
          /\ w.polls = 3
          /\ w.sleeps = <<5, 10>>
          /\ w.outcome = "returned"

C4_Witness ==
    /\ w.hist = <<"pending", "pending", "uploaded">>
    /\ w.initial_delay = 5
    /\ w.outcome = "returned"
    /\ w.sleeps = <<5, 10>>

\* The messages a call can end with after an error of its last poll: the
\* text of line 731 followed by str(e) of the error of the status request.
PollErrorTexts ==
    {MSG_WAIT_TIMEOUT_COLON \o FlattenMessage(StatusRequestError(t).msg) :
        t \in ErrorAnswers}

\* C5: an error raised by a status poll takes one attempt of the loop.  On
\* an attempt that is not the last one the call goes on: it sleeps the
\* current delay and the wake-up leads to the next poll.  The call ends
\* with the error's message only when the error came on the last attempt.
C5_PollErrorIsRetried ==
    /\ (w.hist # <<>> /\ Last(w.hist) = "error" /\ Len(w.hist) < w.max_retries) =>
          /\ w.outcome = "none"
          /\ Len(w.sleeps) = Len(w.hist)
          /\ Last(w.sleeps) = w.initial_delay * Pow2(Len(w.hist) - 1)
          /\ \/ w.pc = "sleep" /\ w.attempt = Len(w.hist) - 1
                               /\ WakeStep(w).pc = "poll"
             \/ w.pc = "poll" /\ w.attempt = Len(w.hist)
    /\ (w.hist # <<>> /\ Last(w.hist) = "error" /\ Len(w.hist) = w.max_retries) =>
          /\ w.pc = "done"
          /\ w.outcome = "raised"
          /\ w.error.kind = "NotionFileUploadError"
          /\ w.error.msg \in PollErrorTexts
          /\ Len(w.sleeps) = Len(w.hist) - 1
    /\ (w.outcome = "raised" /\ w.error.msg \in PollErrorTexts) =>
          /\ Last(w.hist) = "error"
          /\ w.polls = w.max_retries

C5_Witness ==
    /\ w.max_retries = 3
    /\ w.hist = <<"error", "pending", "error">>
    /\ w.sleeps = <<5, 10>>
    /\ w.outcome = "raised"
    /\ Contains(w.error.msg, MSG_API_UNEXPECTED_ERROR)

\* The path a failed call took, by what the server reported, and the path
\* its message names: the text of line 713 right after that of line 731
\* is the 'failed' status, the bare text of line 735 is exhaustion, any
\* other text after that of line 731 is an error of the poll (the text of
\* an HTTP error holds the text of line 713 too, further in).
ReportedPath(h) ==
    IF \E i \in 1..Len(h) : h[i] = "failed" THEN "failed"
    ELSE IF h # <<>> /\ Last(h) = "error" THEN "error"
    ELSE "exhausted"

MessagePath(msg) ==
    IF /\ Len(msg) >= 3
       /\ SubSeq(msg, 1, 2) = MSG_WAIT_TIMEOUT_COLON
       /\ msg[3] = MSG_UPLOAD_FAILED
    THEN "failed"
    ELSE IF msg = <<MSG_WAIT_TIMEOUT>> THEN "exhausted"
    ELSE "error"

\* C6: every failure of the call is a NotionFileUploadError, and its
\* message tells which of the three paths the call failed by: an explicit
\* 'failed' status, attempts exhausted while pending, an error while
\* polling.
C6_FailurePathsDistinct ==
    w.outcome = "raised" =>
        /\ w.error.kind = "NotionFileUploadError"
        /\ MessagePath(w.error.msg) = ReportedPath(w.hist)

\* C7: the k-th sleep of a call lasts initial_delay * 2^(k-1), after a
\* pending attempt and after an error alike, and the delay held between
\* sleeps is initial_delay doubled once per sleep that has ended.
C7_DelayDoubles ==
    /\ \A k \in 1..Len(w.sleeps) : w.sleeps[k] = w.initial_delay * Pow2(k - 1)
    /\ w.pc # "idle" =>
          w.delay = w.initial_delay *
                       Pow2(IF w.pc = "sleep" THEN Len(w.sleeps) - 1 ELSE Len(w.sleeps))
    /\ w.pc \in {"sleep", "poll"} => w.delay = w.initial_delay * Pow2(w.attempt)
    /\ w.pc = "sleep" => Len(w.sleeps) = w.attempt + 1
    /\ w.pc = "poll" => Len(w.sleeps) = w.attempt

C7_Witness ==
    /\ w.initial_delay = 5
    /\ w.hist = <<"pending", "error", "pending">>
    /\ w.sleeps = <<5, 10, 20>>
    /\ w.pc = "poll"
    /\ w.delay = 40

(***************************************************************************)
(* Properties of create_file_upload, checked under CreateSpec.             *)
(***************************************************************************)
\* the least n with n * d >= a, for a > 0
CeilDiv(a, d) == CHOOSE n \in 1..(MaxParts + 2) : n * d >= a /\ (n - 1) * d < a

\* C8: a call with no external URL and file_size unset or at most 20 MiB
\* submits one payload, with mode single_part and no number_of_parts, and
\* returns that plan when the request succeeds.
C8_SmallFileIsSinglePart ==
    (/\ u.pc # "idle"
     /\ IsNone(u.external_url)
     /\ (IsNone(u.file_size) \/ Val(u.file_size) <= 20 * 1024 * 1024)) =>
        /\ Len(u.requests) = 1
        /\ u.requests[1].mode = "single_part"
        /\ "number_of_parts" \notin u.requests[1].keys
        /\ IsNone(u.requests[1].number_of_parts)
        /\ u.outcome = "returned" =>
              Val(u.result)[3] = None /\ Val(u.result)[4] = "single_part"

C8_Witness ==
    /\ u.outcome = "returned"
    /\ IsNone(u.external_url)
    /\ u.file_size = Some(20 * 1024 * 1024)
    /\ u.requests[1].mode = "single_part"

\* C9: a call with no external URL and file_size above 20 MiB submits one
\* payload, with mode multi_part and number_of_parts the ceiling of
\* file_size / 10 MiB, and returns that number when the request succeeds.
C9_LargeFileIsMultiPart ==
    (/\ u.pc # "idle"
     /\ IsNone(u.external_url)
     /\ ~IsNone(u.file_size)
     /\ Val(u.file_size) > 20 * 1024 * 1024) =>
        /\ Len(u.requests) = 1
        /\ u.requests[1].mode = "multi_part"
        /\ "number_of_parts" \in u.requests[1].keys
        /\ u.requests[1].number_of_parts =
               Some(CeilDiv(Val(u.file_size), 10 * 1024 * 1024))
        /\ Val(u.file_size) \in {25165824, 20 * 1024 * 1024 + 1, 30 * 1024 * 1024}
              => u.requests[1].number_of_parts = Some(3)
        /\ u.outcome = "returned" =>
              /\ Val(u.result)[3] = u.requests[1].number_of_parts
              /\ Val(u.result)[4] = "multi_part"

C9_Witness ==
    /\ u.outcome = "returned"
    /\ IsNone(u.external_url)
    /\ u.file_size = Some(20 * 1024 * 1024 + 1)
    /\ Val(u.result)[3] = Some(3)

\* C10 as stated: a call whose external_url does not start with
\* "https://" ends with a ValueError and issues no request.
C10_AnyInsecureUrlIsRejected ==
    (/\ u.pc # "idle"
     /\ ~IsNone(u.external_url)
     /\ ~StartsWith(Val(u.external_url), HTTPS_PREFIX)) =>
        /\ u.pc = "done"
        /\ u.outcome = "raised"
        /\ u.error = "ValueError"
        /\ u.requests = <<>>

\* C10 as amended: a call whose external_url is not empty and does not
\* start with "https://" ends with a ValueError and issues no request.
C10_NonEmptyInsecureUrlIsRejected ==
    (/\ u.pc # "idle"
     /\ ~IsNone(u.external_url)
     /\ Val(u.external_url) # <<>>
     /\ ~StartsWith(Val(u.external_url), HTTPS_PREFIX)) =>
        /\ u.pc = "done"
        /\ u.outcome = "raised"
        /\ u.error = "ValueError"
        /\ u.requests = <<>>

C10_Witness ==
    /\ u.pc = "done"
    /\ u.external_url = Some(<<"h", "t", "t", "p", ":", "/", "/", "a">>)
    /\ u.file_size = Some(30 * 1024 * 1024)
    /\ u.error = "ValueError"
    /\ u.requests = <<>>

\* C11: in the payload submitted and in the tuple returned, number_of_parts
\* is there (a positive integer) exactly when the mode is multi_part; and a
\* call with an external_url that starts with "https://" plans mode
\* external_url with the URL in the payload, whatever file_size is.
C11_PartsIffMultiPart ==
    /\ \A i \in 1..Len(u.requests) :
          /\ ("number_of_parts" \in u.requests[i].keys)
                <=> (u.requests[i].mode = "multi_part")
          /\ ~IsNone(u.requests[i].number_of_parts)
                <=> (u.requests[i].mode = "multi_part")
          /\ ~IsNone(u.requests[i].number_of_parts)
                => Val(u.requests[i].number_of_parts) >= 1
    /\ u.outcome = "returned" =>
          /\ ~IsNone(Val(u.result)[3]) <=> (Val(u.result)[4] = "multi_part")
          /\ Val(u.result)[4] = u.requests[1].mode
    /\ (/\ u.pc # "idle"
        /\ ~IsNone(u.external_url)
        /\ StartsWith(Val(u.external_url), HTTPS_PREFIX)) =>
          /\ Len(u.requests) = 1
          /\ u.requests[1].mode = "external_url"
          /\ u.requests[1].external_url = u.external_url
          /\ "number_of_parts" \notin u.requests[1].keys

C11_Witness ==
    /\ u.outcome = "returned"
    /\ u.external_url = Some(HTTPS_PREFIX \o <<"a">>)
    /\ u.file_size = Some(30 * 1024 * 1024)
    /\ Val(u.result)[4] = "external_url"
    /\ IsNone(Val(u.result)[3])

(***************************************************************************)
(* Properties of _format_error_message, checked under FormatSpec.          *)
(***************************************************************************)
RECURSIVE Join(_, _)
Join(parts, sep) ==
    IF Len(parts) = 0 THEN <<>>
    ELSE IF Len(parts) = 1 THEN parts[1]
    ELSE parts[1] \o sep \o Join(Tail(parts), sep)

HasSentenceBoundary(str) ==
    \E i \in 1..(Len(str) - 1) : str[i] = "." /\ str[i + 1] = " "

NonEmpty(str) == str # <<>>

\* the sentences of a formatted text: its item lines without their "- "
Sentences(lines) ==
    IF Tail(lines) = <<<<>>>> THEN <<>>
    ELSE [i \in 1..(Len(lines) - 1) |-> SubSeq(lines[i + 1], 3, Len(lines[i + 1]))]

\* the text of a message with its empty sentences taken out: what is left
\* when the sentences are put together again
SentencesOf(message) == SelectSeq(Split(message, <<".", " ">>), NonEmpty)

\* what C15 says in general: after the header there is one line "- s" per
\* non-empty sentence s of the message, in the order of the message, where
\* the sentences are what lies between the boundaries ". "
ItemizedBySentence ==
    (fmt.pc = "done" /\ ~IsNone(fmt.message)) =>
        /\ fmt.lines[1] = <<MSG_ERROR_DETAILS>>
        /\ Join(Split(Val(fmt.message), <<".", " ">>), <<".", " ">>) = Val(fmt.message)
        /\ Sentences(fmt.lines) = SentencesOf(Val(fmt.message))
        /\ \A i \in 2..Len(fmt.lines) :
              \/ /\ StartsWith(fmt.lines[i], <<"-", " ">>)
                 /\ Len(fmt.lines[i]) > 2
                 /\ ~HasSentenceBoundary(SubSeq(fmt.lines[i], 3, Len(fmt.lines[i])))
              \/ /\ fmt.lines[i] = <<>>
                 /\ Len(fmt.lines) = 2

\* C15 as stated: the general rule, and for the message "A. B." the item
\* lines are "- A" and "- B".
C15_ItemsAreAandB ==
    /\ ItemizedBySentence
    /\ (fmt.pc = "done" /\ fmt.message = Some(<<"A", ".", " ", "B", ".">>)) =>
          /\ <<"-", " ", "A">> \in {fmt.lines[i] : i \in 1..Len(fmt.lines)}
          /\ <<"-", " ", "B">> \in {fmt.lines[i] : i \in 1..Len(fmt.lines)}

\* C15 as amended: the general rule, and for the message "A. B." the item
\* lines are "- A" and "- B.": the last sentence keeps its full stop,
\* which is followed by no space and so is no boundary.
C15_ItemsAreAandBDot ==
    /\ ItemizedBySentence
    /\ (fmt.pc = "done" /\ fmt.message = Some(<<"A", ".", " ", "B", ".">>)) =>
          fmt.lines = <<<<MSG_ERROR_DETAILS>>, <<"-", " ", "A">>,
                        <<"-", " ", "B", ".">>>>

C15_Witness ==
    /\ fmt.pc = "done"
    /\ fmt.message = Some(<<"A", ".", " ", "B", ".">>)
    /\ Len(fmt.lines) = 3

(***************************************************************************)
(* Properties of _make_request, checked under RequestSpec.                 *)
(***************************************************************************)
AnsweredWithErrorStatus ==
    /\ req.pc = "done"
    /\ ~IsNone(req.response)
    /\ Val(req.response).kind = "response"
    /\ Val(req.response).status >= 400

\* C12: when the server answers with an HTTP error status, the error that
\* leaves _make_request is a NotionFileUploadError if the URL has the
\* segment file_uploads and a NotionPageError otherwise.
C12_ErrorKindFollowsUrl ==
    AnsweredWithErrorStatus =>
        /\ req.outcome = "raised"
        /\ req.error.kind =
              IF \E i \in 1..Len(req.url) : req.url[i] = "file_uploads"
              THEN "NotionFileUploadError" ELSE "NotionPageError"

\* C13: when the server answers with an HTTP error status, the error that
\* leaves _make_request carries that status code and the response body.
C13_StatusAndBodyKept ==
    AnsweredWithErrorStatus =>
        /\ req.outcome = "raised"
        /\ req.error.status_code = Some(Val(req.response).status)
        /\ req.error.response_body = Val(req.response).body

\* C14: a call of create_file_upload that fails, fails with a
\* NotionAPIError, a NotionFileUploadError, a NotionPageError or a
\* ValueError, whatever the server answered.
C14_OnlyDeclaredErrorKinds ==
    u.outcome = "raised" =>
        u.error \in {"NotionAPIError", "NotionFileUploadError", "NotionPageError",
                     "ValueError"}

(***************************************************************************)
(* Properties of the transport session, checked under SessionSpec.         *)
(***************************************************************************)
\* C16: every session the client has opened is closed or is the one it
\* holds, and when the outermost scope has just been left the client
\* holds no session and every session opened is closed.
C16_EverySessionClosed ==
    /\ \A i \in 1..cli.opened : i \in cli.closed \/ cli.session = Some(i)
    /\ (cli.last = "aexit" /\ cli.depth = 0) =>
          /\ IsNone(cli.session)
          /\ cli.closed = 1..cli.opened

(***************************************************************************)
(* Properties of the multi-part sequence, checked under PartsSpec.         *)
(***************************************************************************)
PartFailed ==
    /\ mp.pc = "done"
    /\ mp.outcome = "raised"
    /\ mp.error.kind # "ValueError"
    /\ Last(mp.sent).op = "part"

\* C17: when the request of a part fails, the sequence ends at once with a
\* NotionFileUploadError: the failed part is the last request made, it was
\* sent once, and no completion request was made.
C17_PartFailureIsUploadFailure ==
    PartFailed =>
        /\ mp.error.kind = "NotionFileUploadError"
        /\ mp.inflight = 0
        /\ \A i \in 1..Len(mp.sent) : mp.sent[i].op = "part"
        /\ \A i \in 1..(Len(mp.sent) - 1) :
              mp.sent[i].part_number # Last(mp.sent).part_number

(***************************************************************************)
(* Properties of append_file_block, checked under AppendSpec.              *)
(***************************************************************************)
\* C19: a PATCH request that attaches the file block is made only when
\* wait_for_file_upload has returned after a poll that answered 'uploaded',
\* and it names the upload id that was waited for; when the wait raises, no
\* PATCH request is made and the call ends with the error of the wait.
C19_PatchOnlyAfterUploaded ==
    /\ \A i \in 1..Len(app.requests) :
          /\ w.outcome = "returned"
          /\ Last(w.hist) = "uploaded"
          /\ app.requests[i].block.file_upload_id = app.waited
          /\ i = 1
    /\ w.outcome = "raised" =>
          /\ app.requests = <<>>
          /\ app.pc = "done"
          /\ app.outcome = "raised"
          /\ app.error = w.error
    /\ (app.pc = "done" /\ app.outcome = "returned") => Len(app.requests) = 1

C19_Witness ==
    /\ app.pc = "done"
    /\ app.outcome = "returned"
    /\ Len(app.requests) = 1
    /\ app.requests[1].block.file_upload_id = <<"u", "2">>
    /\ Len(w.hist) = 3
    /\ w.hist[1] = "pending"
    /\ w.hist[2] = "error"

(***************************************************************************)
(* Properties of the payload builders, checked under BuildSpec.            *)
(***************************************************************************)
\* C20: for every field the dict holds, building the wire properties and
\* reading them back gives the value that was put in, with its type, and a
\* bool is on the wire as a checkbox.
C20_BuildThenParseRecovers ==
    bld.pc = "parsed" =>
        \A field \in FieldNames :
            HasKey(bld.properties[field]) =>
                /\ bld.parsed[field] = bld.properties[field]
                /\ bld.properties[field].type = "bool" =>
                      bld.wire[field].kind = "checkbox"

(***************************************************************************)
(* The Transport kind, checked under RequestSpec.                          *)
(***************************************************************************)
\* the body of a response cannot be read as structured data: response.json()
\* refuses its content type, or its text is no JSON
Unparseable(body) == ~body.json_type \/ body.parses = "invalid"

TransportFailed ==
    /\ req.pc = "done"
    /\ ~IsNone(req.response)
    /\ Val(req.response).kind = "client_error"

MalformedSuccess ==
    /\ req.pc = "done"
    /\ ~IsNone(req.response)
    /\ Val(req.response).kind = "response"
    /\ ~IsErrorStatus(Val(req.response).status)
    /\ Unparseable(Val(Val(req.response).body))

\* C21: a request whose transport failed, or whose answer has a success
\* status and a body that cannot be parsed, ends with a NotionAPIError, and
\* the error that leaves _handle_response for it is neither a
\* NotionFileUploadError nor a NotionPageError.
C21_TransportKindAtEveryLayer ==
    (TransportFailed \/ MalformedSuccess) =>
        /\ req.outcome = "raised"
        /\ req.error.kind = "NotionAPIError"
        /\ req.inner.kind \notin {"NotionFileUploadError", "NotionPageError"}

(***************************************************************************)
(* Properties of the text splitting, checked under TextSpec.               *)
(***************************************************************************)
RECURSIVE ConcatAll(_)
\* the concatenation of the texts of a sequence, in order
ConcatAll(texts) ==
    IF texts = <<>> THEN <<>> ELSE Head(texts) \o ConcatAll(Tail(texts))

\* the text that was split: none for a create_page without content
TextSplit == IF TruthyStr(txt.text) THEN Val(txt.text) ELSE <<>>

\* C23: the paragraphs of a text are not empty, have at most max_length
\* characters and all but the last exactly max_length, and together, in
\* order, are the text; create_page and append_text split at 1950 and put
\* one paragraph block for each paragraph, in order, in the children of the
\* one request they make; create_page without content or with the empty
\* text sends no children.
C23_ParagraphsPartitionText ==
    txt.pc # "idle" =>
        /\ \A i \in 1..Len(txt.chunks) :
              /\ Len(txt.chunks[i]) >= 1
              /\ Len(txt.chunks[i]) <= txt.max_length
              /\ i < Len(txt.chunks) => Len(txt.chunks[i]) = txt.max_length
        /\ ConcatAll(txt.chunks) = TextSplit
        /\ txt.op \in {"create_page", "append_text"} =>
              /\ txt.max_length = 1950
              /\ Len(txt.requests) = 1
              /\ txt.requests[1].children = txt.children
        /\ (txt.op = "create_page" /\ TextSplit = <<>>) => IsNone(txt.children)
        /\ (txt.op = "append_text" \/ (txt.op = "create_page" /\ TextSplit # <<>>)) =>
              /\ ~IsNone(txt.children)
              /\ Len(Val(txt.children)) = Len(txt.chunks)
              /\ \A i \in 1..Len(txt.chunks) :
                    /\ Val(txt.children)[i].type = "paragraph"
                    /\ Val(txt.children)[i].content = txt.chunks[i]

C23_Witness ==
    /\ txt.pc = "done"
    /\ txt.op = "create_page"
    /\ txt.outcome = "returned"
    /\ Len(TextSplit) = 2 * 1950 + 1
    /\ Len(txt.chunks) = 3
    /\ Len(txt.chunks[2]) = 1950
    /\ Len(txt.chunks[3]) = 1
    /\ txt.chunks[1][1] = "a"
    /\ txt.chunks[2][1] = "b"
    /\ Len(Val(txt.children)) = 3

(***************************************************************************)
(* Properties of concurrent waits, checked under ConcSpec.                 *)
(***************************************************************************)
RECURSIVE RunAlone(_, _)
\* the state of a wait that runs alone from state s and is given the
\* answers of script, one for each attempt
RunAlone(s, script) ==
    IF script = <<>> THEN s
    ELSE RunAlone(PollStep(IF s.pc = "sleep" THEN WakeStep(s) ELSE s, Head(script)),
                  Tail(script))

\* the wait of operation i, run alone on the answers operation i was given
Alone(i) ==
    RunAlone(WaitEnter(cw.ops[i].max_retries, cw.ops[i].initial_delay), cw.scripts[i])

\* C24: each of the concurrent operations has made at most its own
\* max_retries polls, its k-th sleep lasts its own initial_delay * 2^(k-1),
\* and it is where it would be had it run alone on the answers it was
\* given: in the same state, or one wake-up further.
C24_ProgressIsPrivate ==
    \A i \in Operations :
        cw.ops[i].pc # "idle" =>
            /\ cw.ops[i].polls <= cw.ops[i].max_retries
            /\ cw.ops[i].polls = Len(cw.scripts[i])
            /\ \A k \in 1..Len(cw.ops[i].sleeps) :
                  cw.ops[i].sleeps[k] = cw.ops[i].initial_delay * Pow2(k - 1)
            /\ \/ cw.ops[i] = Alone(i)
               \/ Alone(i).pc = "sleep" /\ cw.ops[i] = WakeStep(Alone(i))

C24_Witness ==
    /\ cw.session_open
    /\ cw.ops[1].pc = "done" /\ cw.ops[1].outcome = "returned"
    /\ cw.ops[1].initial_delay = 1 /\ cw.ops[1].sleeps = <<1>>
    /\ cw.ops[2].pc = "done" /\ cw.ops[2].outcome = "raised"
    /\ cw.ops[2].initial_delay = 5 /\ cw.ops[2].sleeps = <<5, 10>>
    /\ cw.ops[2].polls = 2

(***************************************************************************)
(* Termination of wait_for_file_upload, checked under LiveSpec.            *)
(***************************************************************************)
WaitEndsWell ==
    /\ w.polls <= w.max_retries
    /\ w.pc = "done" =>
          \/ w.outcome = "returned"
          \/ w.outcome = "raised" /\ w.error.kind = "NotionFileUploadError"
    /\ (w.pc # "idle" /\ w.max_retries = 0) =>
          /\ w.pc = "done"
          /\ w.polls = 0
          /\ w.sleeps = <<>>
          /\ w.outcome = "raised"
          /\ w.error = NotionFileUploadError(<<MSG_WAIT_TIMEOUT>>)

\* C25: when every status request is answered and every sleep returns, a
\* call of wait_for_file_upload ends, whatever the answers are; it ends
\* with a return or a NotionFileUploadError after at most max_retries polls,
\* and with max_retries = 0 it ends with the timeout error without a poll
\* or a sleep.
C25_WaitTerminates ==
    /\ [](WaitEndsWell)
    /\ (w.pc # "idle") ~> (w.pc = "done")

C25_Witness ==
    /\ w.pc = "done"
    /\ w.max_retries = 4
    /\ w.hist = <<"pending", "error", "failed", "pending">>
    /\ w.outcome = "raised"
    /\ Len(w.sleeps) = 4

(***************************************************************************)
(* The number of sleeps of a call, checked under Spec.                     *)
(***************************************************************************)
\* C26: a call that has ended after at least one poll has slept once less
\* than it polled when its last poll answered 'uploaded' or raised an error
\* (an exception of the request, or the status 'failed') on the final
\* attempt, and as often as it polled when its last poll, on the final
\* attempt, answered pending: then it sleeps once more before it raises the
\* timeout error.
C26_SleepsFollowTheEnding ==
    (w.pc = "done" /\ w.polls > 0) =>
        /\ Last(w.hist) = "uploaded" =>
              /\ w.outcome = "returned"
              /\ Len(w.sleeps) = w.polls - 1
        /\ Last(w.hist) \in {"error", "failed"} =>
              /\ w.outcome = "raised"
              /\ w.polls = w.max_retries
              /\ Len(w.sleeps) = w.polls - 1
        /\ Last(w.hist) = "pending" =>
              /\ w.outcome = "raised"
              /\ w.polls = w.max_retries
              /\ Len(w.sleeps) = w.polls
              /\ w.error = NotionFileUploadError(<<MSG_WAIT_TIMEOUT>>)

C26_Witness ==
    /\ w.pc = "done"
    /\ w.max_retries = 3
    /\ w.initial_delay = 5
    /\ w.hist = <<"error", "error", "pending">>
    /\ w.sleeps = <<5, 10, 20>>
    /\ w.outcome = "raised"

====
